---- MODULE Spec2Model ----
(***************************************************************************)
(* State-machine model of powerschool-save (src/src/index.ts, run.ts).     *)
(*                                                                         *)
(* Tabs is the bounded page pool: create() queues a request, a background  *)
(* loop started by the constructor runs createPendingTabs() every 100 ms.  *)
(* The program is single-threaded: every action below is one synchronous   *)
(* run of code between two suspension points (await).                      *)
(***************************************************************************)
EXTENDS Integers, Sequences, FiniteSets, TLC

\* ------------------------------------------------------------------ bounds
\* Largest capacity (max) the pool is constructed with.
MaxCap == 3
\* Number of create() calls the clients of the pool issue.
MaxReq == 4
\* Number of failed attempts the page worker of savePages makes when
\* savePages is called by a caller of the class.
MaxRetry == 2
\* Number of failed attempts the page worker makes under run.ts, where the
\* whole tree of operations runs.
MaxRunRetry == 1
\* Number of create() calls login() and the scraping operations issue, other
\* than under run.ts with capacity 1; the calls of the failed attempts of the
\* page worker are not counted.
MaxCalls == 4

VARIABLES
  tabs,      \* Tabs.tabs: the open collection, a sequence of page handles
  pending,   \* Tabs.pending: the waiting queue, a sequence of request ids
  max,       \* Tabs.max
  count,     \* Tabs.count
  pc,        \* where the background loop of the constructor is suspended
  req,       \* createPendingTabs' local `pending`: the request dequeued, or 0
  tab,       \* createPendingTabs' local `tab`: the page newPage() returned, or 0
  nPages,    \* browser: pages newPage() has returned so far (handles are 1..nPages)
  closed,    \* browser: the handles for which isClosed() is true
  fut,       \* the promise of each create() call, in call order
  got,       \* the handle each promise was resolved with (0: none)
  pass,      \* history of the pass in progress, or of the last one
  alive,     \* the Node process is running
  main,      \* run.ts: where main is ("off": the class is used without run.ts;
             \* "exited": it has called process.exit())
  pssTabs,   \* PowerSchoolSave.tabs is set
  login,     \* where PowerSchoolSave.login() is
  loginReq,  \* the create() call of login()
  loginPage, \* what the page of login() shows after the form was submitted
             \* ("none": not submitted yet, or the page is closed)
  click,     \* button.click() of strategy.login: "none" (not called yet) or
             \* "called" (its promise is awaited and handled by nobody)
  apiCalled, \* the caller of the class has invoked its one scraping operation
  st,        \* where each scraping operation is
  treq,      \* the create() call each scraping operation awaits or holds
  retries    \* the create() calls of the failed attempts of the page worker
             \* of savePages so far, in order

poolVars == <<tabs, pending, max, count, pc, req, tab, nPages, closed, fut, got, pass>>
appVars == <<pssTabs, login, loginReq, loginPage, click, apiCalled, st, treq, retries>>
vars == <<poolVars, alive, main, appVars>>

\* ------------------------------------------------------------ pure helpers
Range(s) == {s[i] : i \in DOMAIN s}

\* Mutant: splice(i + 1, 1): the handle after the closed one is removed.
SpliceAfter(t, i) ==
  [k \in 1..(Len(t) - 1) |-> IF k <= i + 1 /\ i + 1 < Len(t) THEN t[k] ELSE t[k + 1]]

\* Array.prototype.splice(i, 1) at 0-based index i, i.e. position i+1 here.
Splice(t, i) == [k \in 1..(Len(t) - 1) |-> IF k <= i THEN t[k] ELSE t[k + 1]]

\* Mutant: every handle is taken for closed.
isClosedAny(h) == TRUE

\* tab.isClosed()
isClosed(h) == h \in closed

\* The for-of loop of cullDeadTabs over this.tabs.entries(): the array iterator
\* keeps a 0-based index i, re-reads this.tabs.length before every step and
\* advances by one also after a splice.
RECURSIVE cullFrom(_, _)
cullFrom(t, i) ==
  IF i >= Len(t) THEN t
  ELSE IF isClosed(t[i + 1]) THEN cullFrom(Splice(t, i), i + 1)
  ELSE cullFrom(t, i + 1)

\* Mutant: the scan starts at index 1, so the first handle is never culled.
cullFromSecond(t) == cullFrom(t, 1)

\* Mutant: the scan stops at the first handle that is not closed.
cullPrefix(t) == IF t # <<>> /\ isClosed(t[1]) THEN cullFrom(t, 0) ELSE t

cullDeadTabs(t) == cullFrom(t, 0)

\* Mutant: the loop admits while length <= max.
WhileCondLeq(t) == Len(t) <= max

\* Mutant: the loop stops one short of max.
WhileCondShort(t) == Len(t) < max - 1

\* The condition of the while loop of createPendingTabs.
WhileCond(t) == Len(t) < max

\* Mutant: pop() instead of shift(): the newest request is taken.
Pop(q) == [item |-> q[Len(q)], rest |-> SubSeq(q, 1, Len(q) - 1)]

\* Mutant: the request is read but left at the head of the queue.
Peek(q) == [item |-> Head(q), rest |-> q]

\* this.pending.shift() on a non-empty queue q: the request taken, and the
\* queue left.
Shift(q) == [item |-> Head(q), rest |-> Tail(q)]

\* Mutant: unshift() instead of push(): the request joins at the head.
Unshifted(q, r) == <<r>> \o q

\* Mutant: create() queues its resolve function twice.
PushedTwice(q, r) == Append(Append(q, r), r)

\* this.pending.push(resolve) of create().
Pushed(q, r) == Append(q, r)

\* Mutant: the counter is set to the number of open tabs, t being this.tabs.
CountOpen(c, t) == Len(t)

\* this.count++ after the push that made this.tabs t.
Counted(c, t) == c + 1

\* Mutant: a failed creation resolves the request it was for all the same.
ResolveOnFailure(f, r) == [f EXCEPT ![r] = "resolved"]

\* Mutant: a failed creation rejects the promise of the request it was for.
RejectOnFailure(f, r) == [f EXCEPT ![r] = "rejected"]

\* What a failed newPage()/setViewport() does to the promises: createPendingTabs
\* has no try/catch and create() keeps no reject function, so nothing.
OnCreateFailure(f, r) == f

\* The history of a pass: the collections as its cull found them, the counter
\* then, the requests it has admitted, and whether a page was closed meanwhile.
PassAt(t, c, q, n) == [tabs0 |-> t, closed0 |-> c, pending0 |-> q, count0 |-> n,
                       admitted |-> <<>>, closedDuring |-> FALSE]

\* ---------------------------------------------------------------- the pool
\* The fields `new Tabs(browser, max)` sets, and the loop its constructor
\* starts: the async function runs createPendingTabs() up to its first await,
\* i.e. cullDeadTabs() has run on the empty collection.
Constructed ==
  /\ tabs = <<>>
  /\ pending = <<>>
  /\ count = 0
  /\ pc = "culled"

\* The scraping operations of PowerSchoolSave, one instance of each: the
\* second page of assignments is saveActivitiesAssignmentsNext, the worker of
\* savePages for one page is savePage.
Tasks ==
  {"saveClasses", "saveClass", "savePages", "savePage", "saveMessages",
   "saveMessagesInbox", "saveMessagesDrafts", "saveActivities",
   "saveActivitiesAssignments", "saveActivitiesAssignmentsNext",
   "saveActivitiesAssignmentWork", "saveActivitiesDiscussions", "saveGrades"}

\* No operation of PowerSchoolSave has been called.
Unused ==
  /\ pssTabs = FALSE
  /\ login = "idle"
  /\ loginReq = 0
  /\ loginPage = "none"
  /\ click = "none"
  /\ apiCalled = FALSE
  /\ st = [t \in Tasks |-> "idle"]
  /\ treq = [t \in Tasks |-> 0]
  /\ retries = <<>>

\* The pool on its own, right after `new Tabs(browser, max)`, used by clients
\* that call create() and close the pages they get.
Init ==
  /\ Constructed
  /\ max \in 1..MaxCap
  /\ req = 0
  /\ tab = 0
  /\ nPages = 0
  /\ closed = {}
  /\ fut = <<>>
  /\ got = <<>>
  /\ pass = PassAt(<<>>, {}, <<>>, 0)
  /\ alive = TRUE
  /\ main = "off"
  /\ Unused

\* Tabs.create(): a new promise whose resolve function is queued.
create ==
  /\ alive
  /\ Len(fut) < MaxReq
  /\ pending' = Pushed(pending, Len(fut) + 1)
  /\ fut' = Append(fut, "pending")
  /\ got' = Append(got, 0)
  /\ UNCHANGED <<tabs, max, count, pc, req, tab, nPages, closed, pass, alive, main, appVars>>

\* Page h is closed: isClosed() turns true, the pool is not told.
Close(h) ==
  /\ closed' = closed \cup {h}
  /\ pass' = [pass EXCEPT !.closedDuring = @ \/ pc \notin {"sleep", "dead"}]

\* Mutant: the catch block of the page worker does not close the tab.
DiscardKeeps(h) == UNCHANGED <<closed, pass>>

\* `await tab.close()` in the catch block of the page worker of savePages.
Discard(h) == Close(h)

\* A page handed to a requester is closed by its holder (tab.close()).
closeTab(h) ==
  /\ alive
  /\ h \in Range(got) \ {0}
  /\ ~isClosed(h)
  /\ Close(h)
  /\ UNCHANGED <<tabs, pending, max, count, pc, req, tab, nPages, fut, got, alive, main, appVars>>

\* The head of the while loop, evaluated with the open collection t: either
\* the next request is dequeued and newPage() is awaited, or the pass returns
\* and the loop of the constructor sleeps 100 ms.
LoopHead(t) ==
  IF WhileCond(t) /\ pending # <<>>
  THEN /\ req' = Shift(pending).item
       /\ pending' = Shift(pending).rest
       /\ pc' = "newPage"
  ELSE /\ req' = 0
       /\ pending' = pending
       /\ pc' = "sleep"

\* Mutant: createPendingTabs() is started by an interval timer, whether or
\* not the pass before it has returned.
createPendingTabsInterval ==
  /\ alive
  /\ pc \in {"sleep", "culled", "newPage", "setViewport"}
  /\ tabs' = cullDeadTabs(tabs)
  /\ pc' = "culled"
  /\ pass' = PassAt(tabs, closed, pending, count)
  /\ UNCHANGED <<pending, max, count, req, tab, nPages, closed, fut, got, alive, main, appVars>>

\* The timer of the constructor's loop fires: createPendingTabs() starts and
\* runs cullDeadTabs() up to `await this.cullDeadTabs()`.
createPendingTabs ==
  /\ alive
  /\ pc = "sleep"
  /\ tabs' = cullDeadTabs(tabs)
  /\ pc' = "culled"
  /\ pass' = PassAt(tabs, closed, pending, count)
  /\ UNCHANGED <<pending, max, count, req, tab, nPages, closed, fut, got, alive, main, appVars>>

\* createPendingTabs resumes after the cull and enters the while loop.
admit ==
  /\ alive
  /\ pc = "culled"
  /\ LoopHead(tabs)
  /\ UNCHANGED <<tabs, max, count, tab, nPages, closed, fut, got, pass, alive, main, appVars>>

\* browser.newPage() resolves with a new page; setViewport() is awaited.
newPageOk ==
  /\ alive
  /\ pc = "newPage"
  /\ nPages' = nPages + 1
  /\ tab' = nPages + 1
  /\ pc' = "setViewport"
  /\ UNCHANGED <<tabs, pending, max, count, req, closed, fut, got, pass, alive, main, appVars>>

\* createPendingTabs throws: the promise of the constructor's async function
\* is rejected and nobody handles it. Node then either terminates the
\* process (its default since version 15) or only warns.
LoopDies ==
  /\ pc' = "dead"
  /\ fut' = OnCreateFailure(fut, req)
  /\ alive' \in BOOLEAN

\* browser.newPage() rejects.
newPageFail ==
  /\ alive
  /\ pc = "newPage"
  /\ LoopDies
  /\ UNCHANGED <<tabs, pending, max, count, req, tab, nPages, closed, got, pass, main, appVars>>

\* tab.setViewport() rejects, with the new page left open.
setViewportFail ==
  /\ alive
  /\ pc = "setViewport"
  /\ LoopDies
  /\ UNCHANGED <<tabs, pending, max, count, req, tab, nPages, closed, got, pass, main, appVars>>

\* tab.setViewport() resolves: the page is pushed, the request resolved with
\* it, the counter incremented, and the while loop goes round. The caller
\* awaiting the request resumes before anything else runs: login() goes on
\* to tab.goto and strategy.login, a scraping operation to its page work.
setViewportOk ==
  /\ alive
  /\ pc = "setViewport"
  /\ tabs' = Append(tabs, tab)
  /\ fut' = [fut EXCEPT ![req] = "resolved"]
  /\ got' = [got EXCEPT ![req] = tab]
  /\ count' = Counted(count, tabs')
  /\ tab' = 0
  /\ pass' = [pass EXCEPT !.admitted = Append(@, req)]
  /\ LoopHead(tabs')
  /\ login' = IF login = "create" /\ loginReq = req THEN "goto" ELSE login
  /\ st' = [t \in Tasks |-> IF st[t] = "wait" /\ treq[t] = req THEN "hold" ELSE st[t]]
  /\ UNCHANGED <<max, nPages, closed, alive, main, pssTabs, loginReq, loginPage, click,
                 apiCalled, treq, retries>>

Next ==
  \/ create
  \/ \E h \in 1..nPages : closeTab(h)
  \/ createPendingTabs
  \/ admit
  \/ newPageOk
  \/ newPageFail
  \/ setViewportOk
  \/ setViewportFail

Spec == Init /\ [][Next]_vars

\* The pool when the browser never fails, the loop of the constructor keeps
\* being scheduled (timers and browser replies arrive) and every holder of a
\* page closes it in the end.
NextLive ==
  \/ create
  \/ \E h \in 1..nPages : closeTab(h)
  \/ createPendingTabs
  \/ admit
  \/ newPageOk
  \/ setViewportOk

SpecLive ==
  /\ Init
  /\ [][NextLive]_vars
  /\ WF_vars(createPendingTabs)
  /\ WF_vars(admit)
  /\ WF_vars(newPageOk)
  /\ WF_vars(setViewportOk)
  /\ \A h \in 1..MaxReq : WF_vars(closeTab(h))

\* The pool when the browser never fails and the loop of the constructor
\* keeps being scheduled, whatever the holders of the pages do: they may keep
\* a page open for ever.
SpecLoop ==
  /\ Init
  /\ [][NextLive]_vars
  /\ WF_vars(createPendingTabs)
  /\ WF_vars(admit)
  /\ WF_vars(newPageOk)
  /\ WF_vars(setViewportOk)

\* ------------------------------------------------- PasswordLoginStrategy
\* What the submission of the login form is followed by on the page: the
\* note whose innerText is ERROR_TEXT, or anything else (the portal's start
\* page, a note with another text).
Shown == {"incorrect", "other"}

\* Lines 100-106: `note` is defined when waitForNavigation resolved and the
\* waitForSelector of the note resolved within its 1000 ms; the try block
\* swallows the rejection of either, and login returns when it is undefined.
NoteFound(navigated, found) == navigated /\ found

\* Mutant: the text of the note is not compared.
strategyLoginNoCompare(shown, answered) ==
  IF ~answered THEN "error" ELSE "ok"

\* Line 107, with `note` defined on a page that shows `shown`: "error" when
\* note.evaluate rejects, "ERROR_TEXT" when the text it resolves with is
\* ERROR_TEXT and login throws new Error(ERROR_TEXT), "ok" when login returns.
strategyLogin(shown, answered) ==
  IF ~answered THEN "error"
  ELSE IF shown = "incorrect" THEN "ERROR_TEXT"
  ELSE "ok"

\* ------------------------------------------------------- PowerSchoolSave
\* The operations that start with `if (!this.tabs) throw new NotLoggedInError()`.
Checked == Tasks \ {"saveMessages", "saveActivities"}

\* The methods of PowerSchoolSave a caller can call: all but the page worker,
\* which is a closure inside savePages.
Public == Tasks \ {"savePage"}

\* The operations that await fs.mkdir before anything else they await.
MkdirFirst ==
  {"saveMessages", "saveActivities", "saveMessagesInbox",
   "saveMessagesDrafts", "saveActivitiesAssignments"}

\* The operations each operation starts and awaits.
Kids(t) ==
  CASE t = "saveClasses" -> {"saveClass"}
    [] t = "saveClass" -> {"savePages", "saveMessages", "saveActivities", "saveGrades"}
    [] t = "savePages" -> {"savePage"}
    [] t = "saveMessages" -> {"saveMessagesInbox", "saveMessagesDrafts"}
    [] t = "saveActivities" -> {"saveActivitiesAssignments", "saveActivitiesDiscussions"}
    [] t = "saveActivitiesAssignments" ->
         {"saveActivitiesAssignmentWork", "saveActivitiesAssignmentsNext"}
    [] OTHER -> {}

\* The calls an operation makes, in order, once its own tab is closed (or,
\* for saveMessages and saveActivities, once its directory is made): the
\* portal lists no class or one, no page or one.
KidChoices(t) ==
  CASE t = "saveClasses" -> {<<>>, <<"saveClass">>}
    [] t = "saveClass" ->
         {<<"savePages", "saveMessages", "saveActivities", "saveGrades">>}
    [] t = "savePages" -> {<<>>, <<"savePage">>}
    [] t = "saveMessages" -> {<<"saveMessagesInbox", "saveMessagesDrafts">>}
    [] t = "saveActivities" ->
         {<<"saveActivitiesAssignments", "saveActivitiesDiscussions">>}
    [] OTHER -> {<<>>}

\* The promises and operations as a value, for the calls one synchronous run
\* of code makes in a row.
Now == [pending |-> pending, fut |-> fut, got |-> got, st |-> st, treq |-> treq]

\* `await this.tabs.create()` in operation t: Tabs.create() and suspension.
createFor(S, t) ==
  LET n == Len(S.fut) + 1 IN
    [S EXCEPT !.pending = Pushed(@, n), !.fut = Append(@, "pending"),
              !.got = Append(@, 0), !.st[t] = "wait", !.treq[t] = n]

\* Operation t is called and runs to its first await: the check of
\* this.tabs, then fs.mkdir or this.tabs.create().
callOn(S, t) ==
  IF t \in Checked /\ ~pssTabs THEN [S EXCEPT !.st[t] = "threw"]
  ELSE IF t \in MkdirFirst THEN [S EXCEPT !.st[t] = "mkdir"]
  ELSE createFor(S, t)

\* The calls of ts, in order.
RECURSIVE callAll(_, _)
callAll(S, ts) ==
  IF ts = <<>> THEN S ELSE callAll(callOn(S, Head(ts)), Tail(ts))

Bad == {"failed", "threw"}
Over == {"idle", "done"}

\* Where an operation that awaits its children is once they have moved:
\* Promise.all rejects with the first child that fails and resolves when all
\* have; saveActivitiesAssignments awaits the work first, then the next page.
Joined(f, t) ==
  IF t = "saveActivitiesAssignments"
  THEN IF f["saveActivitiesAssignmentWork"] \in Bad THEN "failed"
       ELSE IF f["saveActivitiesAssignmentWork"] \notin Over THEN "join"
       ELSE IF f["saveActivitiesAssignmentsNext"] \in Bad THEN "failed"
       ELSE IF f["saveActivitiesAssignmentsNext"] \notin Over THEN "join"
       ELSE "done"
  ELSE IF \E c \in Kids(t) : f[c] \in Bad THEN "failed"
       ELSE IF \A c \in Kids(t) : f[c] \in Over THEN "done"
       ELSE "join"

\* Completion and failure travel up the chain of awaiting operations in the
\* same run of code.
RECURSIVE Settle(_)
Settle(f) ==
  CHOOSE r \in {IF g = f THEN f ELSE Settle(g) :
                  g \in {[t \in Tasks |-> IF f[t] = "join" THEN Joined(f, t)
                                          ELSE f[t]]}} : TRUE

\* run.ts: main awaits saveClasses() and calls process.exit() when it
\* returns or throws.
MainAfter(f) ==
  IF main = "saveClasses" /\ f["saveClasses"] \in {"done", "failed"}
  THEN "exited" ELSE main

\* The effect of a run of code of the operations that leaves them as S.
\* Under run.ts with capacity 1 the operations get their pages one at a time
\* and all their calls are followed; otherwise the first MaxCalls calls,
\* those of failed attempts of the page worker apart.
Apply(S) ==
  \E R \in {S} :
    /\ ((max = 1 /\ main # "off") \/ Len(R.fut) <= MaxCalls + Len(retries))
    /\ pending' = R.pending
    /\ fut' = R.fut
    /\ got' = R.got
    /\ treq' = R.treq
    /\ st' = Settle(R.st)
    /\ main' = MainAfter(st')

\* A run of code in which every promise that rejects has a handler.
Commit(S) ==
  /\ Apply(S)
  /\ alive' = (main' # "exited")

\* A run of code that rejects a promise nobody handles: Node either ends the
\* process (its default since version 15) or only warns.
CommitUnhandled(S) ==
  /\ Apply(S)
  /\ alive' \in {FALSE, main' # "exited"}

\* The promise of operation t has a handler: its caller awaits it, alone or
\* in a Promise.all. saveActivitiesAssignments keeps the promises of the work
\* (line 330) and of the next page (318) and awaits them only after its loop:
\* Promise.all(promises) at 337, then nextPage at 338. If it has thrown
\* before, nobody ever awaits them. A caller from outside awaits its call.
Handled(t) ==
  CASE t = "saveActivitiesAssignmentWork" ->
         st["saveActivitiesAssignments"] \in {"idle", "join"}
    [] t = "saveActivitiesAssignmentsNext" ->
         \/ st["saveActivitiesAssignments"] = "idle"
         \/ /\ st["saveActivitiesAssignments"] = "join"
            /\ st["saveActivitiesAssignmentWork"] \in Over
    [] OTHER -> TRUE

\* Before login(): PowerSchoolSave is constructed with maxTabs = max, no
\* pool exists. main of run.ts is about to call login(), or the class is
\* used by another caller.
InitApp ==
  /\ tabs = <<>>
  /\ pending = <<>>
  /\ count = 0
  /\ pc = "none"
  /\ max \in 1..MaxCap
  /\ req = 0
  /\ tab = 0
  /\ nPages = 0
  /\ closed = {}
  /\ fut = <<>>
  /\ got = <<>>
  /\ pass = PassAt(<<>>, {}, <<>>, 0)
  /\ alive = TRUE
  /\ main \in {"start", "off"}
  /\ Unused

\* run.ts: PasswordLoginStrategy.fromEnv() throws without USERNAME or
\* PASSWORD; otherwise login() is called and awaited.
mainStart ==
  /\ alive
  /\ main = "start"
  /\ \E env \in BOOLEAN :
       IF env THEN main' = "login" /\ login' = "launch" /\ alive' = alive
       ELSE main' = "exited" /\ login' = login /\ alive' = FALSE
  /\ UNCHANGED <<poolVars, pssTabs, loginReq, loginPage, click, apiCalled, st, treq, retries>>

\* Another caller calls login().
apiLogin ==
  /\ alive
  /\ main = "off"
  /\ login = "idle"
  /\ login' = "launch"
  /\ UNCHANGED <<poolVars, alive, main, pssTabs, loginReq, loginPage, click, apiCalled, st, treq, retries>>

\* login() throws e and, in run.ts, main catches it and exits.
LoginThrows(e) ==
  /\ login' = e
  /\ main' = IF main = "login" THEN "exited" ELSE main
  /\ alive' = (main' # "exited")

\* login() throws what a call it awaits rejected with.
LoginFails == LoginThrows("failed")

\* fs.rm, fs.mkdir or puppeteer.launch rejects.
loginLaunchFail ==
  /\ alive
  /\ login = "launch"
  /\ LoginFails
  /\ UNCHANGED <<poolVars, pssTabs, loginReq, loginPage, click, apiCalled, st, treq, retries>>

\* The browser is launched: this.tabs = new Tabs(browser, this.maxTabs),
\* then this.tabs.create() is awaited.
loginLaunched ==
  /\ alive
  /\ login = "launch"
  /\ pssTabs' = TRUE
  /\ tabs' = <<>>
  /\ count' = 0
  /\ pc' = "culled"
  /\ pending' = Pushed(<<>>, Len(fut) + 1)
  /\ fut' = Append(fut, "pending")
  /\ got' = Append(got, 0)
  /\ loginReq' = Len(fut) + 1
  /\ login' = "create"
  /\ UNCHANGED <<max, req, tab, nPages, closed, pass, alive, main, loginPage, click,
                 apiCalled, st, treq, retries>>

\* tab.goto(this.root) resolves and strategy.login(tab) is called, or it
\* rejects and login() throws with the tab open.
loginGoto ==
  /\ alive
  /\ login = "goto"
  /\ \E reached \in BOOLEAN :
       IF reached THEN login' = "form" /\ UNCHANGED <<alive, main>>
       ELSE LoginFails
  /\ UNCHANGED <<poolVars, pssTabs, loginReq, loginPage, click, apiCalled, st, treq, retries>>

\* Lines 92-98: the fields are found and typed into, the button is found and
\* button.click() is called without await, then waitForNavigation is
\* awaited; or one of the awaited calls rejects (or assertExists throws) and
\* login() throws before the click.
loginForm ==
  /\ alive
  /\ login = "form"
  /\ \E form \in BOOLEAN :
       IF form
       THEN login' = "navigation" /\ click' = "called" /\ UNCHANGED <<alive, main>>
       ELSE LoginFails /\ click' = click
  /\ UNCHANGED <<poolVars, pssTabs, loginReq, loginPage, apiCalled, st, treq, retries>>

\* Lines 102-106: the page shows what the submission is followed by, and the
\* try block is over. With `note` undefined strategy.login returns and
\* login() goes on to tab.close(); otherwise note.evaluate is awaited.
loginNavigated ==
  /\ alive
  /\ login = "navigation"
  /\ \E shown \in Shown, navigated \in BOOLEAN, found \in BOOLEAN :
       /\ loginPage' = shown
       /\ login' = IF NoteFound(navigated, found) THEN "evaluate" ELSE "close"
  /\ UNCHANGED <<poolVars, alive, main, pssTabs, loginReq, click, apiCalled, st, treq, retries>>

\* Line 107: note.evaluate is answered, or rejects.
loginEvaluated ==
  /\ alive
  /\ login = "evaluate"
  /\ \E answered \in BOOLEAN :
       LET r == strategyLogin(loginPage, answered) IN
         IF r = "ok" THEN login' = "close" /\ UNCHANGED <<alive, main>>
         ELSE LoginThrows(IF r = "ERROR_TEXT" THEN "ERROR_TEXT" ELSE "failed")
  /\ UNCHANGED <<poolVars, pssTabs, loginReq, loginPage, click, apiCalled, st, treq, retries>>

\* button.click() rejects, while strategy.login goes on or after it is over
\* (e.g. when the tab is closed), and Node ends the process on the unhandled
\* rejection. When the promise resolves, or Node only warns, nothing in the
\* program changes: nobody awaits it.
clickRejected ==
  /\ alive
  /\ click = "called"
  /\ alive' = FALSE
  /\ UNCHANGED <<poolVars, main, appVars>>

\* tab.close() of login() rejects: login() throws with the tab open.
loginCloseFail ==
  /\ alive
  /\ login = "close"
  /\ LoginFails
  /\ UNCHANGED <<poolVars, pssTabs, loginReq, loginPage, click, apiCalled, st, treq, retries>>

\* tab.close() of login() resolves, the page of login() is gone and login()
\* returns; in run.ts main goes on to call saveClasses().
loginClosed ==
  /\ alive
  /\ login = "close"
  /\ Close(got[loginReq])
  /\ login' = "done"
  /\ loginPage' = "none"
  /\ IF main = "login"
     THEN LET S == callOn(Now, "saveClasses") IN
            /\ ((max = 1 /\ main # "off") \/ Len(S.fut) <= MaxCalls + Len(retries))
            /\ pending' = S.pending /\ fut' = S.fut /\ got' = S.got
            /\ treq' = S.treq /\ st' = S.st
            /\ main' = "saveClasses"
            /\ alive' = alive
     ELSE UNCHANGED <<pending, fut, got, treq, st, alive, main>>
  /\ UNCHANGED <<tabs, max, count, pc, req, tab, nPages, pssTabs, loginReq,
                 click, apiCalled, retries>>

\* Another caller calls a scraping operation.
apiCall(t) ==
  /\ alive
  /\ main = "off"
  /\ ~apiCalled
  /\ st[t] = "idle"
  /\ apiCalled' = TRUE
  /\ Commit(callOn(Now, t))
  /\ UNCHANGED <<tabs, max, count, pc, req, tab, nPages, closed, pass,
                 pssTabs, login, loginReq, loginPage, click, retries>>

\* fs.mkdir of operation t resolves: saveMessages and saveActivities call
\* their children, the others await this.tabs.create().
mkdirDone(t) ==
  /\ alive
  /\ st[t] = "mkdir"
  /\ IF t \in Checked
     THEN Commit(createFor(Now, t))
     ELSE \E ks \in KidChoices(t) :
            Commit(callAll([Now EXCEPT !.st[t] = "join"], ks))
  /\ UNCHANGED <<tabs, max, count, pc, req, tab, nPages, closed, pass,
                 pssTabs, login, loginReq, loginPage, click, apiCalled, retries>>

\* fs.mkdir of operation t rejects (the directory exists, its parent is
\* missing): t throws before it has asked for a tab.
mkdirFail(t) ==
  /\ alive
  /\ st[t] = "mkdir"
  /\ Commit([Now EXCEPT !.st[t] = "failed"])
  /\ UNCHANGED <<tabs, max, count, pc, req, tab, nPages, closed, pass,
                 pssTabs, login, loginReq, loginPage, click, apiCalled, retries>>

\* The page work of operation t is done. savePage: waitForSelector either
\* settled (the pdf is written, the tab closed, the worker returns) or threw
\* (the tab is closed in the catch, then `continue`: the loop checks this.tabs
\* and awaits this.tabs.create() again). The assignment pages go on to the
\* loop over their list, with the tab open: the first page may have a next
\* page, which it calls. The others await tab.close(), call their children
\* and await them.
holdDone(t) ==
  /\ alive
  /\ st[t] = "hold"
  /\ IF t = "savePage"
     THEN \E settled \in BOOLEAN :
            IF settled
            THEN /\ Close(got[treq[t]])
                 /\ retries' = retries
                 /\ Commit([Now EXCEPT !.st[t] = "done"])
            ELSE /\ Len(retries) < (IF main = "off" THEN MaxRetry ELSE MaxRunRetry)
                 /\ Discard(got[treq[t]])
                 /\ retries' = Append(retries, treq[t])
                 /\ Commit(callOn(Now, t))
     ELSE IF t = "saveActivitiesAssignments"
     THEN \E hasNextPage \in BOOLEAN :
            /\ Commit(IF hasNextPage
                      THEN callOn([Now EXCEPT !.st[t] = "loop"],
                                  "saveActivitiesAssignmentsNext")
                      ELSE [Now EXCEPT !.st[t] = "loop"])
            /\ UNCHANGED <<closed, pass, retries>>
     ELSE IF t = "saveActivitiesAssignmentsNext"
     THEN /\ Commit([Now EXCEPT !.st[t] = "loop"])
          /\ UNCHANGED <<closed, pass, retries>>
     ELSE /\ Close(got[treq[t]])
          /\ retries' = retries
          /\ \E ks \in KidChoices(t) :
               Commit(callAll([Now EXCEPT !.st[t] = "join"], ks))
  /\ UNCHANGED <<tabs, max, count, pc, req, tab, nPages,
                 pssTabs, login, loginReq, loginPage, click, apiCalled>>

\* Mutant: the assignment pages await their children before tab.close().
loopDoneHolding(t) ==
  /\ alive
  /\ st[t] = "loop"
  /\ \E viewWork \in BOOLEAN :
       IF viewWork
       THEN /\ t = "saveActivitiesAssignments"
            /\ st["saveActivitiesAssignmentWork"] = "idle"
            /\ Commit(callOn(Now, "saveActivitiesAssignmentWork"))
       ELSE Commit([Now EXCEPT !.st[t] = "join"])
  /\ UNCHANGED <<tabs, max, count, pc, req, tab, nPages, closed, pass,
                 pssTabs, login, loginReq, loginPage, click, apiCalled, retries>>

\* The loop over the assignments of a page goes on: on the first page one
\* assignment may have handed-in work, for which
\* saveActivitiesAssignmentWork is called with the tab open; after the last
\* assignment tab.close() is awaited, then the work and the next page.
loopDone(t) ==
  /\ alive
  /\ st[t] = "loop"
  /\ \E viewWork \in BOOLEAN :
       IF viewWork
       THEN /\ t = "saveActivitiesAssignments"
            /\ st["saveActivitiesAssignmentWork"] = "idle"
            /\ Commit(callOn(Now, "saveActivitiesAssignmentWork"))
            /\ UNCHANGED <<closed, pass>>
       ELSE /\ Close(got[treq[t]])
            /\ Commit([Now EXCEPT !.st[t] = "join"])
  /\ UNCHANGED <<tabs, max, count, pc, req, tab, nPages,
                 pssTabs, login, loginReq, loginPage, click, apiCalled, retries>>

\* A browser call of operation t rejects while it has its tab (a selector is
\* not found, a navigation fails): t throws and the tab stays open.
taskFail(t) ==
  /\ alive
  /\ st[t] \in {"hold", "loop"}
  /\ IF Handled(t)
     THEN Commit([Now EXCEPT !.st[t] = "failed"])
     ELSE CommitUnhandled([Now EXCEPT !.st[t] = "failed"])
  /\ UNCHANGED <<tabs, max, count, pc, req, tab, nPages, closed, pass,
                 pssTabs, login, loginReq, loginPage, click, apiCalled, retries>>

NextApp ==
  \/ mainStart
  \/ apiLogin
  \/ loginLaunchFail
  \/ loginLaunched
  \/ loginGoto
  \/ loginForm
  \/ loginNavigated
  \/ loginEvaluated
  \/ loginClosed
  \/ loginCloseFail
  \/ clickRejected
  \/ \E t \in Public : apiCall(t)
  \/ \E t \in Tasks : mkdirDone(t)
  \/ \E t \in Tasks : mkdirFail(t)
  \/ \E t \in Tasks : holdDone(t)
  \/ \E t \in Tasks : loopDone(t)
  \/ \E t \in Tasks : taskFail(t)
  \/ createPendingTabs
  \/ admit
  \/ newPageOk
  \/ newPageFail
  \/ setViewportOk
  \/ setViewportFail

SpecApp == InitApp /\ [][NextApp]_vars

\* The steps of login() and of the scraping operations under run.ts: a call
\* that is awaited is answered, with its result or with a rejection.
stepRun ==
  \/ mainStart
  \/ loginLaunchFail
  \/ loginLaunched
  \/ loginGoto
  \/ loginForm
  \/ loginNavigated
  \/ loginEvaluated
  \/ loginClosed
  \/ loginCloseFail
  \/ \E t \in Tasks : mkdirDone(t)
  \/ \E t \in Tasks : mkdirFail(t)
  \/ \E t \in Tasks : holdDone(t)
  \/ \E t \in Tasks : loopDone(t)
  \/ \E t \in Tasks : taskFail(t)

\* main of run.ts is about to call login(), on a PowerSchoolSave constructed
\* with maxTabs = 1 (run.ts itself passes 10; the option is the caller's).
InitRun ==
  /\ InitApp
  /\ main = "start"
  /\ max = 1

\* The steps of the pool's loop: the timer fires, the browser answers
\* newPage and setViewport, with a page or with a rejection.
stepLoop ==
  \/ createPendingTabs
  \/ admit
  \/ newPageOk
  \/ newPageFail
  \/ setViewportOk
  \/ setViewportFail

NextRun ==
  \/ stepRun
  \/ stepLoop
  \/ clickRejected

\* Every call that is awaited is answered in the end and the timer of the
\* pool's loop fires; nobody awaits button.click().
SpecRun ==
  /\ InitRun
  /\ [][NextRun]_vars
  /\ WF_vars(stepRun)
  /\ WF_vars(stepLoop)

\* ------------------------------------------------------------------ claims
\* The handles whose creation (newPage and setViewport) has completed.
Created == (1..nPages) \ {tab}

\* The handles delivered to a request.
Delivered == Range(got) \ {0}

\* The handles of t that are not closed, in t's order.
Live(t, c) == SelectSeq(t, LAMBDA h : h \notin c)

\* C1. Capacity invariant: in every reachable state the open collection holds
\* at most max handles.
C1_CapacityInvariant == Len(tabs) <= max

\* C1 witness: the collection is full after capacity was recycled, and a
\* request is waiting for a slot.
C1_Witness ==
  /\ Len(tabs) = max
  /\ count > max
  /\ pending # <<>>

\* C2. FIFO: a request is never resolved while an earlier one is unresolved.
C2_Fifo ==
  \A a, b \in DOMAIN fut :
    (a < b /\ fut[b] = "resolved") => fut[a] = "resolved"

\* C2 witness: two requests were resolved in order, and a pass suspended on
\* the creation of a third has a later request queued behind it.
C2_Witness ==
  /\ pc \in {"newPage", "setViewport"}
  /\ req = 3
  /\ fut[1] = "resolved" /\ fut[2] = "resolved"
  /\ pending = <<4>>

\* C3 (as claimed). Right after the cull of a pass, no handle that was closed
\* when the cull started is left in the open collection.
C3_CullRemovesAllClosed ==
  pc = "culled" => \A i \in DOMAIN tabs : tabs[i] \notin pass.closed0

\* C4. A pass that starts with max handles in the collection of which exactly
\* one is closed, with a request waiting, and during which no page is closed,
\* admits exactly the oldest request: the collection ends with the other
\* max - 1 handles in place followed by the new one, and count is one more.
C4_Premise ==
  /\ pc = "sleep"
  /\ Len(pass.tabs0) = max
  /\ Len(Live(pass.tabs0, pass.closed0)) = max - 1
  /\ pass.pending0 # <<>>
  /\ ~pass.closedDuring

C4_EventualAdmission ==
  C4_Premise =>
    LET r == Head(pass.pending0) IN
      /\ pass.admitted = <<r>>
      /\ fut[r] = "resolved"
      /\ got[r] \notin Range(pass.tabs0)
      /\ tabs = Live(pass.tabs0, pass.closed0) \o <<got[r]>>
      /\ Len(tabs) = max
      /\ count = pass.count0 + 1

\* C4 witness: the scenario of the specification: capacity 2, three requests,
\* the first handle closed, the third request admitted, counter 3.
C4_Witness ==
  /\ C4_Premise
  /\ max = 2
  /\ pass.tabs0 = <<1, 2>> /\ pass.closed0 = {1}
  /\ tabs = <<2, 3>> /\ got[3] = 3
  /\ count = 3

\* C5. The counter equals the number of distinct handles whose creation has
\* completed, which are the handles delivered, one per resolved request,
\* whether closed or not; so it grows by one per handle and never decreases.
C5_CounterCorrect ==
  /\ count = Cardinality(Created)
  /\ Created = Delivered
  /\ count = Cardinality({r \in DOMAIN fut : fut[r] = "resolved"})

\* C5 witness: three handles were created, two of them are closed and culled.
C5_Witness ==
  /\ count = 3
  /\ Cardinality(closed) = 2
  /\ Len(tabs) = 1

\* C6. With a browser that never fails, a fairly scheduled loop and holders
\* that close their pages, every create() call is eventually resolved.
C6_Liveness ==
  \A r \in 1..MaxReq :
    (Len(fut) >= r) ~> (Len(fut) >= r /\ fut[r] = "resolved" /\ got[r] # 0)

\* C6 witness: with capacity 1 every one of the requests issued has been
\* resolved, each after the page of the one before was closed and culled.
C6_Witness ==
  /\ max = 1
  /\ Len(fut) = MaxReq
  /\ \A r \in DOMAIN fut : fut[r] = "resolved"
  /\ count = MaxReq

\* C7. No promise of create() is ever rejected; once a creation has failed,
\* the request dequeued for it is neither resolved nor back in the queue.
C7_NoErrorPath ==
  /\ \A r \in DOMAIN fut : fut[r] # "rejected"
  /\ pc = "dead" => /\ req \in DOMAIN fut
                    /\ fut[req] = "pending"
                    /\ req \notin Range(pending)

\* C7 witness: setViewport failed for the second request while a third waits.
C7_Witness ==
  /\ pc = "dead"
  /\ tab # 0
  /\ req = 2
  /\ pending = <<3>>

\* C8 (as claimed). A scraping operation called before login() has completed
\* throws NotLoggedInError and issues no create().
C8_NotLoggedIn ==
  \A t \in {"saveClasses", "saveClass", "savePages", "saveMessagesInbox",
            "saveMessagesDrafts", "saveActivitiesAssignments",
            "saveActivitiesDiscussions", "saveGrades"} :
    login # "done" => (st[t] \in {"idle", "threw"} /\ treq[t] = 0)

\* The incorrect-credentials note is in `note`: the waitForSelector of line
\* 104 resolved with it and note.evaluate is awaited.
NoteRead == login = "evaluate" /\ loginPage = "incorrect"

\* C9 (as claimed). Under run.ts, once the submission of the login form was
\* followed by the incorrect-credentials message, login() never returns, no
\* scraping operation is started and the only create() ever issued is that
\* of login().
C9_AsClaimed ==
  [][(main # "off" /\ loginPage = "incorrect") =>
       /\ login' # "done"
       /\ \A t \in Tasks : st'[t] = "idle" /\ treq'[t] = 0
       /\ Len(fut') = 1]_vars

\* C9 (corrected). Under run.ts, once the incorrect-credentials note was
\* found within 1000 ms of a navigation that resolved, login() can only
\* throw (ERROR_TEXT, or what note.evaluate rejected with) and main exits in
\* the step in which it does; when login() has thrown ERROR_TEXT the process
\* has ended, and from the note on no scraping operation was started and the
\* only create() ever issued is that of login().
C9_AuthFailureAborts ==
  /\ [](main # "off" =>
          /\ login = "ERROR_TEXT" =>
               (main = "exited" /\ ~alive /\ loginPage = "incorrect")
          /\ (NoteRead \/ login = "ERROR_TEXT") =>
               /\ \A t \in Tasks : st[t] = "idle" /\ treq[t] = 0
               /\ Len(fut) = 1)
  /\ [][(main # "off" /\ NoteRead) =>
          \/ login' = login /\ main' = main
          \/ login' \in {"ERROR_TEXT", "failed"} /\ main' = "exited" /\ ~alive']_vars

\* C9 witness: run.ts has exited on ERROR_TEXT, thrown for the note of a
\* page that shows the incorrect-credentials message, with the tab of
\* login() created and left open.
C9_Witness ==
  /\ main = "exited"
  /\ loginPage = "incorrect"
  /\ login = "ERROR_TEXT"
  /\ fut[loginReq] = "resolved"
  /\ got[loginReq] \notin closed

\* C10. A pass returns only with the queue empty or the collection full.
C10_AdmissionExhaustive ==
  [][(pc # "sleep" /\ pc' = "sleep") =>
       (pending' = <<>> \/ Len(tabs') = max)]_vars

\* C10 witness: a pass has ended after admitting two requests, the second of
\* which was queued only after the pass had started.
C10_Witness ==
  /\ pc = "sleep"
  /\ Len(pass.tabs0) > 0
  /\ Len(pass.admitted) = 2
  /\ pass.admitted[2] \notin Range(pass.pending0)

\* C11. Frame of create(): a step in which a create() call is made appends
\* exactly that one request at the tail of the waiting queue and leaves the
\* open collection, max, the counter and the browser's pages as they were;
\* the counter changes only in the step that inserts a new page, by one, and
\* max never changes.
C11_CreateFrame ==
  [][/\ Len(fut') # Len(fut) =>
          /\ Len(fut') = Len(fut) + 1
          /\ pending' = Append(pending, Len(fut) + 1)
          /\ tabs' = tabs
          /\ count' = count
          /\ nPages' = nPages
     /\ count' # count =>
          /\ pc = "setViewport"
          /\ count' = count + 1
          /\ tabs' = Append(tabs, tab)
          /\ Len(fut') = Len(fut)
     /\ max' = max]_vars

\* C11 witness: with the collection full and pages created, two requests
\* have been queued behind each other and wait.
C11_Witness ==
  /\ Len(tabs) = max
  /\ count = max
  /\ Len(pending) = 2
  /\ pending[2] = pending[1] + 1
  /\ pc = "sleep"

\* The requests handle h was delivered to.
Owners(h) == {r \in DOMAIN got : got[r] = h}

\* C12. Exclusive ownership: every handle whose creation has completed is
\* delivered to exactly one request and no handle to more than one; a request
\* is resolved at most once, i.e. once resolved it keeps its handle; and a
\* handle delivered in a step was delivered to nobody before.
C12_ExclusiveOwnership ==
  /\ [](/\ \A h \in Created : Cardinality(Owners(h)) = 1
        /\ \A h \in 1..nPages : Cardinality(Owners(h)) <= 1
        /\ \A r \in DOMAIN fut : (fut[r] = "resolved") <=> (got[r] # 0))
  /\ [][\A r \in DOMAIN got :
          /\ got[r] # 0 => got'[r] = got[r] /\ fut'[r] = "resolved"
          /\ (got[r] = 0 /\ got'[r] # 0) => got'[r] \notin Range(got)]_vars

\* C12 witness: three requests own three different handles, the first of
\* them closed and culled, the other two open at the same time.
C12_Witness ==
  /\ Len(got) >= 3
  /\ got[1] = 1 /\ got[2] = 2 /\ got[3] = 3
  /\ closed = {1}
  /\ tabs = <<2, 3>>

\* The create() calls of the page worker of savePages: those of its failed
\* attempts and the one it awaits or holds the page of.
Attempts == Range(retries) \cup ({treq["savePage"]} \ {0})

\* The pages the page worker was given and that are not closed.
WorkerOpen == {got[r] : r \in Attempts} \ (closed \cup {0})

\* C13. Retry of the page worker of savePages: the page of every failed
\* attempt is closed before the next create() is issued, so the worker never
\* has more than one unclosed page and has none while it awaits a create();
\* every attempt has its own create() call and gets a page nobody had, whose
\* insertion adds one to the counter; the worker returns only from an
\* attempt that did not fail, with that page closed.
C13_RetryFreshTab ==
  /\ [](/\ \A r \in Range(retries) : got[r] # 0 /\ got[r] \in closed
        /\ Cardinality(WorkerOpen) <= 1
        /\ st["savePage"] = "wait" => WorkerOpen = {}
        /\ Cardinality(Attempts) =
             Len(retries) + (IF treq["savePage"] \in Range(retries) \cup {0}
                             THEN 0 ELSE 1)
        /\ Cardinality({got[r] : r \in Range(retries)}) = Len(retries)
        /\ st["savePage"] = "done" =>
             /\ treq["savePage"] \notin Range(retries)
             /\ got[treq["savePage"]] \in closed)
  /\ [][/\ (st["savePage"] = "wait" /\ st'["savePage"] = "hold") =>
             /\ count' = count + 1
             /\ got'[treq["savePage"]] \notin Range(got)
        /\ (st["savePage"] = "hold" /\ st'["savePage"] = "wait") =>
             /\ got[treq["savePage"]] \in closed'
             /\ treq'["savePage"] = Len(fut) + 1
             /\ count' = count
        /\ (st["savePage"] # "done" /\ st'["savePage"] = "done") =>
             /\ st["savePage"] = "hold"
             /\ retries' = retries]_vars

\* C13 witness: the worker has returned after MaxRetry failed attempts and a
\* successful one, each with a page of its own, all closed.
C13_Witness ==
  /\ st["savePage"] = "done"
  /\ Len(retries) = MaxRetry
  /\ count >= MaxRetry + 2
  /\ WorkerOpen = {}

\* The pages newPage() has returned that are not closed, the page of a
\* creation in progress included.
Unclosed == (1..nPages) \ closed

\* C14. Live-tab bound: the pages the pool has created and that are not
\* closed never number more than max: each of them is listed in the open
\* collection or is the page of the creation in progress, for which a slot
\* of the collection is free.
C14_LiveTabBound ==
  /\ Cardinality(Unclosed) <= max
  /\ Unclosed \subseteq Range(tabs) \cup {tab}
  /\ tab # 0 => Len(tabs) < max

\* C14 witness: a pass is suspended on setViewport with its new page not yet
\* inserted, a closed handle the cull skipped is still listed, and two pages
\* are open.
C14_Witness ==
  /\ pc = "setViewport"
  /\ tab \notin Range(tabs)
  /\ Range(tabs) \cap closed # {}
  /\ Cardinality(Unclosed) = 2

\* C15. Eventual culling: while the loop of the constructor keeps running,
\* every handle that is closed and listed in the open collection is
\* eventually not listed, whichever handles are closed and whenever, and
\* whether or not the other handles are ever closed.
C15_EventualCulling ==
  \A h \in 1..MaxReq :
    (h \in closed /\ h \in Range(tabs)) ~> (h \notin Range(tabs))

\* C15 witness: two handles that stood next to each other are both closed
\* and both gone, the second of them removed by a pass that found it alone.
C15_Witness ==
  /\ pc = "culled"
  /\ closed = {1, 2}
  /\ pass.tabs0 = <<2>>
  /\ pass.closed0 = {1, 2}
  /\ tabs = <<>>

\* C16. A cull removes only closed handles: the collection it leaves is the
\* one it found without some handles that are closed, the others in their
\* order; every handle that is not closed stays.
C16_CullOnlyDead ==
  [][(pc = "sleep" /\ pc' = "culled") =>
       /\ tabs' = SelectSeq(tabs, LAMBDA h : h \in Range(tabs'))
       /\ Range(tabs) \ Range(tabs') \subseteq closed
       /\ Live(tabs', closed) = Live(tabs, closed)]_vars

\* C16 witness: a cull found three handles of which the middle one was
\* closed, and has left the first and the third in place.
C16_Witness ==
  /\ pc = "culled"
  /\ Len(pass.tabs0) = 3
  /\ Range(pass.tabs0) \cap pass.closed0 = {pass.tabs0[2]}
  /\ tabs = <<pass.tabs0[1], pass.tabs0[3]>>

\* The operations that await a create(): their own, or those of the
\* children they await.
Awaiting == {t \in Tasks : st[t] \in {"wait", "join"}}

\* Operation t has a page that is not closed.
Holds(t) ==
  \/ treq[t] # 0 /\ got[treq[t]] # 0 /\ got[treq[t]] \notin closed
  \/ t = "savePage" /\ WorkerOpen # {}

\* A call of the run was answered with a rejection that was not caught, or
\* the credentials are missing: login() or a scraping operation has thrown,
\* the pool's loop is dead, or the process was ended by the rejection of
\* button.click().
Failed ==
  \/ login \in {"failed", "ERROR_TEXT"}
  \/ \E t \in Tasks : st[t] \in Bad
  \/ pc = "dead"
  \/ ~alive /\ main # "exited"
  \/ main = "exited" /\ login = "idle"

\* C17. No hold-and-wait: no operation that awaits a create(), its own or a
\* child's, has a page it has not closed, and login() has none while it
\* awaits its own; the children an assignment page starts with its page open
\* wait for a slot while their parent goes on and closes it. So with
\* capacity 1 and every call answered, a run of run.ts in which no call
\* fails (other than render waits of the page worker, which it retries) ends:
\* saveClasses() returns and main exits.
C17_NoHoldAndWait ==
  /\ [](/\ \A t \in Awaiting : ~Holds(t)
        /\ login = "create" => Delivered \subseteq closed)
  /\ (main = "start" /\ max = 1) ~>
       ((main = "exited" /\ st["saveClasses"] = "done") \/ Failed)

\* C17 witness: with capacity 1 the run has ended after the first assignment
\* page started its next page and an assignment's work with its page open:
\* all operations have returned, each page was created after the one before
\* it was closed.
C17_Witness ==
  /\ max = 1
  /\ main = "exited"
  /\ \A t \in Tasks : st[t] = "done"
  /\ count = Len(fut)
  /\ count = Cardinality(Checked) + 1
  /\ Unclosed = {}

\* C18. Death of the loop: the step in which newPage() or setViewport()
\* throws leaves the open collection and the counter as they were and the
\* request dequeued for that creation pending and out of the queue; from then
\* on the loop stays dead, the collection and the counter never change and no
\* request, queued before or issued after, becomes resolved.
C18_LoopDeath ==
  [][/\ (pc \in {"newPage", "setViewport"} /\ pc' = "dead") =>
          /\ tabs' = tabs
          /\ count' = count
          /\ req' = req
          /\ fut'[req] = "pending"
          /\ req \notin Range(pending')
     /\ pc = "dead" =>
          /\ pc' = "dead"
          /\ tabs' = tabs
          /\ count' = count
          /\ \A r \in DOMAIN fut' :
               fut'[r] = "resolved" => (r \in DOMAIN fut /\ fut[r] = "resolved")]_vars

\* C18 witness: newPage() has thrown after an earlier request was served;
\* the process lives on, its loop dead, with the request that was dequeued
\* lost and later requests waiting in the queue.
C18_Witness ==
  /\ pc = "dead"
  /\ alive
  /\ tab = 0
  /\ count = 1
  /\ req = 2
  /\ Len(fut) = MaxReq
  /\ pending = <<3, 4>>

\* A pass of createPendingTabs is in progress: started and not returned.
InPass == pc \in {"culled", "newPage", "setViewport"}

\* C19. Non-overlapping passes: a pass starts only when the one before it
\* has returned and the timer has fired; while a pass is in progress it stays
\* the same pass, and between its check of the capacity and its insertion of
\* the new page nothing else changes the open collection, which therefore
\* still has the free slot the check found.
C19_NonOverlappingPasses ==
  [][/\ (pc' = "culled" /\ pc # "culled") => pc = "sleep"
     /\ InPass =>
          /\ pc' \in {"culled", "newPage", "setViewport", "sleep", "dead"}
          /\ (pc = "culled" => pc' # "setViewport")
          /\ pass'.tabs0 = pass.tabs0
          /\ pass'.count0 = pass.count0
          /\ pass'.pending0 = pass.pending0
     /\ pc \in {"newPage", "setViewport"} =>
          /\ Len(tabs) < max
          /\ \/ tabs' = tabs
             \/ pc = "setViewport" /\ tabs' = Append(tabs, tab)]_vars

\* C19 witness: a pass that has already inserted one page is suspended on
\* the creation of the next while a page was closed and further requests
\* were queued; it is still the only pass.
C19_Witness ==
  /\ pc = "setViewport"
  /\ Len(pass.admitted) = 1
  /\ pass.closedDuring
  /\ pending # <<>>
  /\ Len(pending) + Len(pass.admitted) + 1 > Len(pass.pending0)

====
